---- MODULE Spec2Model ----
(***************************************************************************)
(* mangafetcher (src/main.py): url_ok, page_fetcher, download_file and     *)
(* fetch_book as a state machine.  A step is one network request (HEAD or  *)
(* GET) together with all the code that runs up to the next request.       *)
(*                                                                         *)
(* Strings are sequences of tokens; "/" is a token of its own, a           *)
(* replacement field of str.format is the token "{name}".                  *)
(***************************************************************************)
EXTENDS Integers, Sequences, FiniteSets, TLC

\* ---------------------------------------------------------------- bounds
MaxPage  == 4    \* fetch_book stops being explored beyond this page index
MaxRuns  == 2    \* number of fetch_book calls in one behaviour
MaxStub  == 4    \* longest stubbed response list given to page_fetcher
MaxStart == 2    \* largest explicit startfrom given to page_fetcher
MaxCalls == 2    \* number of direct page_fetcher calls in one behaviour
MaxProbes == 2   \* number of direct url_ok calls in one behaviour

\* ------------------------------------------------------ program constants
OK == 200
DefaultSession == 0
DefaultStartFrom == 0
DefaultOutput == <<"a", ".pdf">>
NoSession == -1

\* ------------------------------------------------------------ the network
HeadStatuses == {200, 301, 404, 500}
GetStatuses  == {200, 404, 500}

Response(code, body) == [raised |-> FALSE, status_code |-> code, body |-> body]
Raised == [raised |-> TRUE, status_code |-> 0, body |-> "none"]

\* what session.head(url) can produce: a response, or a requests exception
HeadResponses == {Response(c, "none") : c \in HeadStatuses} \cup {Raised}
\* what session.get(url, stream=True) can produce; a body is an image or
\* something PIL cannot identify
Bodies == {"image", "html"}
GetResponses == {Response(c, b) : c \in GetStatuses, b \in Bodies} \cup {Raised}

\* ---------------------------------------------------------------- strings
Digit == <<"0", "1", "2", "3", "4", "5", "6", "7", "8", "9">>

RECURSIVE Str(_)
Str(n) == IF n < 10 THEN <<Digit[n + 1]>>
          ELSE Str(n \div 10) \o <<Digit[(n % 10) + 1]>>

\* fmt.format(**b): every replacement field named in b is replaced by its
\* value, every other token is copied
RECURSIVE Format(_, _)
Format(fmt, b) ==
    IF fmt = <<>> THEN <<>>
    ELSE (IF Head(fmt) \in DOMAIN b THEN b[Head(fmt)] ELSE <<Head(fmt)>>)
         \o Format(Tail(fmt), b)

\* base_url.format(page=index)
PageUrl(base_url, index) == Format(base_url, [x \in {"{page}"} |-> Str(index)])

\* url.split('/')[-1]
RECURSIVE LastSegment(_)
LastSegment(url) ==
    IF url = <<>> THEN <<>>
    ELSE IF \E i \in DOMAIN Tail(url) : Tail(url)[i] = "/" THEN LastSegment(Tail(url))
    ELSE IF Head(url) = "/" THEN Tail(url)
    ELSE url

\* ----------------------------------------------------------------- inputs
Urls == {<<"http:", "/", "/", "x">>}
Formats == {<<"{url}", "/", "{chapter}", "/", "{page}", ".jpg">>}
\* successive calls fetch successive chapters
Chapters == 5..(4 + MaxRuns)
ChapterOfCall(r) == CHOOSE c \in Chapters : Cardinality({d \in Chapters : d < c}) = r - 1
\* templates handed to page_fetcher directly: only the page field is open
Templates == {<<"http:", "/", "/", "x", "/", "5", "/", "{page}", ".jpg">>,
              <<"x", "/", "{page}">>}

VARIABLES
    pc,           \* position of fetch_book
    run,          \* number of fetch_book calls started so far
    args,         \* arguments of the current fetch_book call
    target,       \* fetch_book: target
    session,      \* fetch_book: session
    images,       \* fetch_book: images
    result,       \* how the current fetch_book call ended
    trace,        \* positions the current fetch_book call went through
    gen,          \* the page_fetcher generator object
    yielded,      \* the values the current generator has yielded
    nextSession,  \* number of requests.Session() objects created so far
    tmpdirs,      \* the temporary directories that exist
    tmpfiles,     \* the files in them
    saved,        \* the documents written, oldest first
    log,          \* the requests sent, oldest first
    h_pc,         \* direct caller of page_fetcher: position
    h_args,       \* direct caller of page_fetcher: arguments
    stub,         \* direct caller of page_fetcher: stubbed responses
    stubPos,      \* next stubbed response
    outs,         \* what each direct call of page_fetcher produced
    u_result      \* what the last direct call of url_ok produced

vars == <<pc, run, args, target, session, images, result, trace, gen, yielded,
          nextSession, tmpdirs, tmpfiles, saved, log, h_pc, h_args, stub,
          stubPos, outs, u_result>>

fbVars == <<pc, run, args, target, session, images, result, trace, tmpdirs,
            tmpfiles, saved>>
hVars  == <<h_pc, h_args, stub, stubPos, outs, u_result>>

\* ------------------------------------------------------------------ url_ok
url_ok_below_400(r) ==
    IF r.raised THEN "raise"
    ELSE IF r.status_code < 400 THEN "True" ELSE "False"

url_ok_not_404(r) ==
    IF r.raised THEN "raise"
    ELSE IF r.status_code # 404 THEN "True" ELSE "False"

\* the value of url_ok given what session.head(url) produced
url_ok(r) ==
    IF r.raised THEN "raise"
    ELSE IF r.status_code = OK THEN "True" ELSE "False"

\* the request url_ok sends
HeadEntry(url, sess, r) ==
    [run |-> run, op |-> "HEAD", url |-> url, session |-> sess, resp |-> r]

\* ------------------------------------------------------------ page_fetcher
NoGenerator ==
    [base_url |-> <<>>, startfrom |-> 0, session |-> NoSession, index |-> 0,
     state |-> "none"]

page_fetcher_stale(base_url, startfrom, sess) ==
    [base_url |-> base_url, startfrom |-> IF gen.state = "none" THEN startfrom
                                          ELSE gen.index,
     session |-> sess, index |-> startfrom, state |-> "created"]

\* page_fetcher(base_url, startfrom, session): a generator object whose
\* body has not started
page_fetcher(base_url, startfrom, sess) ==
    [base_url |-> base_url, startfrom |-> startfrom, session |-> sess,
     index |-> startfrom, state |-> "created"]

GenIndexFromNext(g) == IF g.state = "created" THEN g.startfrom + 1 ELSE g.index + 1

GenIndexSkip(g) == IF g.state = "created" THEN g.startfrom ELSE g.index + 2

\* the index the generator probes when it is resumed
GenIndex(g) == IF g.state = "created" THEN g.startfrom ELSE g.index + 1

\* the session the generator uses (a fresh one when none was passed)
GenSession(g) == IF g.session = NoSession THEN nextSession ELSE g.session

\* next(generator), the HEAD request answering r
page_fetcher_next(r) ==
    LET idx  == GenIndex(gen)
        sess == GenSession(gen)
        url  == PageUrl(gen.base_url, idx)
        ok   == url_ok(r)
    IN  /\ gen.state \in {"created", "suspended"}
        /\ nextSession' = IF gen.session = NoSession THEN nextSession + 1
                          ELSE nextSession
        /\ log' = Append(log, HeadEntry(url, sess, r))
        /\ gen' = [gen EXCEPT !.session = sess, !.index = idx,
                              !.state = CASE ok = "True" -> "suspended"
                                          [] ok = "False" -> "finished"
                                          [] OTHER -> "raised"]
        /\ yielded' = IF ok = "True" THEN Append(yielded, url) ELSE yielded

\* ----------------------------------------------------------- download_file
\* local_filename
LocalFilename(url, output_dir) == [dir |-> output_dir, name |-> LastSegment(url)]

download_raises_unchecked(r) == r.raised

\* does download_file raise, given what session.get produced
download_raises(r) == r.raised \/ r.status_code >= 400

\* the files after download_file wrote the body
WriteFile(files, path, url, r) ==
    {f \in files : f.path # path} \cup {[path |-> path, url |-> url, body |-> r.body]}

GetEntry(url, sess, r) ==
    [run |-> run, op |-> "GET", url |-> url, session |-> sess, resp |-> r]

\* -------------------------------------------------------------- fetch_book
Terminal == {"Aborted", "Failed", "Done"}

tmpdir_exit_normal_only(dirs, d, exceptional) ==
    IF exceptional THEN dirs ELSE dirs \ {d}

\* TemporaryDirectory().__exit__: runs on normal and on exceptional exit
tmpdir_exit(dirs, d, exceptional) == dirs \ {d}

\* leaving the with block
LeaveWith(exceptional) ==
    /\ tmpdirs' = tmpdir_exit(tmpdirs, run, exceptional)
    /\ tmpfiles' = IF run \in tmpdirs' THEN tmpfiles
                   ELSE {f \in tmpfiles : f.path.dir # run}

\* Image.open(path).convert('RGB'): the decoded picture, named by the url it
\* was downloaded from
image_open_raises(files, path) ==
    \A f \in files : f.path = path => f.body # "image"
image_open(files, path) ==
    (CHOOSE f \in files : f.path = path).url

images_prepend(imgs, img) == <<img>> \o imgs

\* images.append(img)
images_append(imgs, img) == Append(imgs, img)

save_never_raises(imgs) == FALSE

\* images[0] raises IndexError on an empty list
save_raises(imgs) == imgs = <<>>

Goto(p) == /\ pc' = p
           /\ trace' = Append(trace, p)

\* line 120: the call
fetch_book_call ==
    /\ pc \in Terminal \cup {"Idle"}
    /\ run < MaxRuns
    /\ h_pc = "off"
    /\ \E u \in Urls, f \in Formats :
          args' = [url |-> u, get_format |-> f, destfile |-> DefaultOutput,
                   chapter |-> ChapterOfCall(run + 1)]
    /\ run' = run + 1
    /\ pc' = "Init"
    /\ trace' = <<"Init">>
    /\ result' = "none"
    /\ target' = <<>>
    /\ session' = NoSession
    /\ images' = <<>>
    /\ gen' = NoGenerator
    /\ yielded' = <<>>
    /\ UNCHANGED <<nextSession, tmpdirs, tmpfiles, saved, log>>
    /\ UNCHANGED hVars

\* lines 122-123
fetch_book_init ==
    /\ pc = "Init"
    /\ target' = Format(args.get_format,
                        [x \in {"{url}", "{chapter}", "{page}"} |->
                           CASE x = "{url}" -> args.url
                             [] x = "{chapter}" -> Str(args.chapter)
                             [] OTHER -> <<"{page}">>])
    /\ session' = nextSession
    /\ nextSession' = nextSession + 1
    /\ Goto("ProbeFirstPage")
    /\ UNCHANGED <<run, args, images, result, gen, yielded, tmpdirs, tmpfiles,
                   saved, log>>
    /\ UNCHANGED hVars

\* the session url_ok is given at line 125: none, so its default
FirstProbeSession == DefaultSession

\* lines 125-132: the probe of page 1; on success the list, the temporary
\* directory and the generator are created
fetch_book_probe_first ==
    /\ pc = "ProbeFirstPage"
    /\ \E r \in HeadResponses :
          /\ log' = Append(log, HeadEntry(PageUrl(target, 1), FirstProbeSession, r))
          /\ CASE url_ok(r) = "raise" ->
                    /\ Goto("Failed")
                    /\ result' = "ConnectionError"
                    /\ UNCHANGED <<images, gen, tmpdirs>>
               [] url_ok(r) = "False" ->
                    /\ Goto("Aborted")
                    /\ result' = "False"
                    /\ UNCHANGED <<images, gen, tmpdirs>>
               [] OTHER ->
                    /\ Goto("Streaming")
                    /\ images' = <<>>
                    /\ tmpdirs' = tmpdirs \cup {run}
                    /\ gen' = page_fetcher(target, 1, session)
                    /\ UNCHANGED result
    /\ UNCHANGED <<run, args, target, session, yielded, nextSession, tmpfiles,
                   saved>>
    /\ UNCHANGED hVars

\* line 132 with lines 70-77: the for loop asks the generator for a page
fetch_book_next_page ==
    /\ pc = "Streaming"
    /\ GenIndex(gen) <= MaxPage
    /\ \E r \in HeadResponses : page_fetcher_next(r)
    /\ CASE gen'.state = "suspended" ->
              /\ pc' = "Downloading"
              /\ UNCHANGED <<trace, result, tmpdirs, tmpfiles>>
         [] gen'.state = "finished" ->
              /\ LeaveWith(FALSE)
              /\ Goto("Assembling")
              /\ UNCHANGED result
         [] OTHER ->
              /\ LeaveWith(TRUE)
              /\ Goto("Failed")
              /\ result' = "ConnectionError"
    /\ UNCHANGED <<run, args, target, session, images, saved>>
    /\ UNCHANGED hVars

LoopPageFirst(y) == y[1]

\* the value the for loop of line 132 binds to page: the one just yielded
LoopPage(y) == y[Len(y)]

\* lines 133-137 with download_file: the body of the for loop
fetch_book_download ==
    /\ pc = "Downloading"
    /\ LET page == LoopPage(yielded)
           path == LocalFilename(page, run)
       IN \E r \in GetResponses :
            /\ log' = Append(log, GetEntry(page, session, r))
            /\ IF download_raises(r)
               THEN /\ LeaveWith(TRUE)
                    /\ Goto("Failed")
                    /\ result' = IF r.raised THEN "ConnectionError" ELSE "HTTPError"
                    /\ UNCHANGED images
               ELSE LET files == WriteFile(tmpfiles, path, page, r)
                    IN IF image_open_raises(files, path)
                       THEN /\ tmpdirs' = tmpdir_exit(tmpdirs, run, TRUE)
                            /\ tmpfiles' = IF run \in tmpdirs' THEN files
                                           ELSE {f \in files : f.path.dir # run}
                            /\ Goto("Failed")
                            /\ result' = "UnidentifiedImageError"
                            /\ UNCHANGED images
                       ELSE /\ tmpfiles' = files
                            /\ images' = images_append(images, image_open(files, path))
                            /\ pc' = "Streaming"
                            /\ UNCHANGED <<trace, result, tmpdirs>>
    /\ UNCHANGED <<run, args, target, session, gen, yielded, nextSession, saved>>
    /\ UNCHANGED hVars

\* lines 139-142
fetch_book_save ==
    /\ pc = "Assembling"
    /\ IF save_raises(images)
       THEN /\ Goto("Failed")
            /\ result' = "IndexError"
            /\ UNCHANGED saved
       ELSE /\ saved' = Append(saved, [run |-> run, destfile |-> args.destfile,
                                       images |-> images])
            /\ Goto("Done")
            /\ result' = "True"
    /\ UNCHANGED <<run, args, target, session, images, gen, yielded, nextSession,
                   tmpdirs, tmpfiles, log>>
    /\ UNCHANGED hVars

Init ==
    /\ pc = "Idle"
    /\ run = 0
    /\ args = [url |-> <<>>, get_format |-> <<>>, destfile |-> <<>>, chapter |-> 0]
    /\ target = <<>>
    /\ session = NoSession
    /\ images = <<>>
    /\ result = "none"
    /\ trace = <<>>
    /\ gen = NoGenerator
    /\ yielded = <<>>
    /\ nextSession = 1
    /\ tmpdirs = {}
    /\ tmpfiles = {}
    /\ saved = <<>>
    /\ log = <<>>
    /\ h_pc = "off"
    /\ h_args = [base_url |-> <<>>, startfrom |-> 0, given |-> FALSE,
                 session |-> NoSession]
    /\ stub = <<>>
    /\ stubPos = 1
    /\ outs = <<>>
    /\ u_result = "none"

\* ------------------------------------------ page_fetcher called directly
\* list(page_fetcher(base_url[, startfrom[, session]])) against a stub that
\* answers the i-th HEAD request of a call with stub[i]
StubLists == UNION {[1..n -> HeadResponses] : n \in 1..MaxStub}

StartOfOne(a) == IF a.given THEN a.startfrom ELSE 1

\* the start index of a call: the argument, or the default of line 57
StartOf(a) == IF a.given THEN a.startfrom ELSE DefaultStartFrom

h_call ==
    /\ h_pc \in {"start", "between"}
    /\ gen' = page_fetcher(h_args.base_url, StartOf(h_args), h_args.session)
    /\ yielded' = <<>>
    /\ stubPos' = 1
    /\ h_pc' = "pulling"
    /\ UNCHANGED <<h_args, stub, outs, nextSession, log, u_result>>
    /\ UNCHANGED fbVars

h_pull ==
    /\ h_pc = "pulling"
    /\ stubPos <= Len(stub)
    /\ page_fetcher_next(stub[stubPos])
    /\ stubPos' = stubPos + 1
    /\ IF gen'.state = "suspended"
       THEN UNCHANGED <<h_pc, outs>>
       ELSE /\ outs' = Append(outs, [values |-> yielded', end |-> gen'.state])
            /\ h_pc' = IF Len(outs') < MaxCalls THEN "between" ELSE "done"
    /\ UNCHANGED <<h_args, stub, u_result>>
    /\ UNCHANGED fbVars

GenInit ==
    /\ pc = "Idle"
    /\ run = 0
    /\ args = [url |-> <<>>, get_format |-> <<>>, destfile |-> <<>>, chapter |-> 0]
    /\ target = <<>>
    /\ session = NoSession
    /\ images = <<>>
    /\ result = "none"
    /\ trace = <<>>
    /\ gen = NoGenerator
    /\ yielded = <<>>
    /\ nextSession = 2
    /\ tmpdirs = {}
    /\ tmpfiles = {}
    /\ saved = <<>>
    /\ log = <<>>
    /\ h_pc = "start"
    /\ h_args \in [base_url : Templates, startfrom : 0..MaxStart,
                   given : BOOLEAN, session : {NoSession, 1}]
    /\ (~h_args.given) => h_args.startfrom = 0
    /\ stub \in StubLists
    /\ stubPos = 1
    /\ outs = <<>>
    /\ u_result = "none"

GenNext == h_call \/ h_pull

GenSpec == GenInit /\ [][GenNext]_vars

\* ------------------------------------------------ url_ok called directly
\* url_ok(url[, session]); some session.head answer r comes back
url_ok_call ==
    /\ Len(log) < MaxProbes
    /\ \E t \in Templates, p \in 0..MaxStart, sess \in {DefaultSession, 1},
          r \in HeadResponses :
          /\ log' = Append(log, HeadEntry(PageUrl(t, p), sess, r))
          /\ u_result' = url_ok(r)
    /\ UNCHANGED <<gen, yielded, nextSession>>
    /\ UNCHANGED fbVars
    /\ UNCHANGED <<h_pc, h_args, stub, stubPos, outs>>

UrlNext == url_ok_call

UrlSpec == Init /\ [][UrlNext]_vars

Next ==
    \/ fetch_book_call
    \/ fetch_book_init
    \/ fetch_book_probe_first
    \/ fetch_book_next_page
    \/ fetch_book_download
    \/ fetch_book_save

Spec == Init /\ [][Next]_vars

\* =================================================================== claims
RunLog == SelectSeq(log, LAMBDA e : e.run = run)
SavedBy(r) == {i \in DOMAIN saved : saved[i].run = r}
Visited == {trace[i] : i \in DOMAIN trace}
IsPrefix(s, t) == Len(s) <= Len(t) /\ \A i \in DOMAIN s : s[i] = t[i]
IsOK(r) == ~r.raised /\ r.status_code = 200
IsNotOK(r) == ~r.raised /\ r.status_code # 200

\* the number of leading OK responses of a stub
RECURSIVE LeadingOK(_)
LeadingOK(s) == IF s = <<>> \/ ~IsOK(Head(s)) THEN 0 ELSE 1 + LeadingOK(Tail(s))

\* C1: against responses that are k times OK and then a non-OK status, a
\* call of page_fetcher yields exactly k URLs, the i-th being the template
\* with page = start+i-1, all different, and ends without an error.
C1_YieldsContiguousPrefix ==
    \A c \in DOMAIN outs :
       LET k == LeadingOK(stub)
       IN (k < Len(stub) /\ IsNotOK(stub[k + 1])) =>
             /\ outs[c].end = "finished"
             /\ Len(outs[c].values) = k
             /\ \A i \in 1..k :
                   outs[c].values[i] = PageUrl(h_args.base_url, StartOf(h_args) + i - 1)
             /\ \A i, j \in 1..k : i # j => outs[c].values[i] # outs[c].values[j]

C1_Witness ==
    /\ outs # <<>>
    /\ outs[1].end = "finished"
    /\ Len(outs[1].values) = 3
    /\ StartOf(h_args) = 2

\* C4: a fault raised by the existence check counts as "page absent": the
\* call that meets it after k OK responses yields those k URLs and ends
\* normally.
C4_FaultMeansAbsent ==
    \A c \in DOMAIN outs :
       LET k == LeadingOK(stub)
       IN (k < Len(stub) /\ stub[k + 1].raised) =>
             /\ outs[c].end = "finished"
             /\ Len(outs[c].values) = k

\* C10: two calls of page_fetcher with the same arguments against the same
\* stubbed responses produce the same sequence and end the same way.
C10_SameOutputTwice ==
    \A c, d \in DOMAIN outs : outs[c] = outs[d]

C10_Witness ==
    /\ Len(outs) = 2
    /\ Len(outs[2].values) >= 2
    /\ h_args.given /\ h_args.startfrom = 1

\* C2: when the probe of page 1 made by fetch_book answers with a status
\* other than 200, the call is at Aborted with result False, has sent no
\* other request, has no generator, and has written nothing.
C2_AbortOnMissingFirstPage ==
    (RunLog # <<>> /\ IsNotOK(RunLog[1].resp)) =>
        /\ pc = "Aborted"
        /\ result = "False"
        /\ Len(RunLog) = 1
        /\ gen.state = "none"
        /\ yielded = <<>>
        /\ SavedBy(run) = {}

C2_Witness ==
    /\ pc = "Aborted"
    /\ run = 2
    /\ RunLog[1].resp.status_code = 404

\* C3: once fetch_book is assembling or done, images holds exactly the
\* pages the generator yielded, in that order, page i at position i; the
\* document written holds that list.
C3_ImagesAreYieldedPages ==
    /\ pc \in {"Assembling", "Done"} =>
          /\ images = yielded
          /\ \A i \in DOMAIN images : images[i] = PageUrl(target, i)
    /\ pc = "Done" =>
          /\ saved # <<>>
          /\ saved[Len(saved)].run = run
          /\ saved[Len(saved)].images = yielded

C3_Witness ==
    /\ pc = "Done"
    /\ Len(saved[Len(saved)].images) = 3

\* C5: a download answered with a failure status is the last request of the
\* call: the call has failed with an error, never reached Assembling and
\* wrote nothing.
C5_DownloadFailureAborts ==
    \A j \in DOMAIN RunLog :
       (RunLog[j].op = "GET" /\ ~RunLog[j].resp.raised
          /\ RunLog[j].resp.status_code >= 400) =>
             /\ j = Len(RunLog)
             /\ pc = "Failed"
             /\ result = "HTTPError"
             /\ "Assembling" \notin Visited
             /\ SavedBy(run) = {}

C5_Witness ==
    /\ pc = "Failed"
    /\ result = "HTTPError"
    /\ Len(images) = 1
    /\ RunLog[Len(RunLog)].resp.body = "image"

\* C6: a call that went through Assembling with an empty list has failed
\* with an error and written nothing; no document is ever written from an
\* empty list.
C6_EmptyAssemblyFails ==
    /\ ("Assembling" \in Visited /\ pc # "Assembling" /\ images = <<>>) =>
          /\ pc = "Failed"
          /\ result = "IndexError"
          /\ SavedBy(run) = {}
    /\ \A i \in DOMAIN saved : saved[i].images # <<>>

C6_Witness ==
    /\ result = "IndexError"
    /\ Len(RunLog) = 2
    /\ IsOK(RunLog[1].resp)
    /\ IsNotOK(RunLog[2].resp)

\* C7: in every terminal state of fetch_book no temporary directory exists
\* and no file is left in one.
C7_TmpdirReleased ==
    pc \in Terminal => (tmpdirs = {} /\ tmpfiles = {})

C7_Witness ==
    /\ pc = "Failed"
    /\ result \in {"HTTPError", "UnidentifiedImageError"}
    /\ Len(images) >= 1

\* C8: every request of a fetch_book call uses the session created for that
\* call, and no session is used by two calls.
C8_OneSessionPerCall ==
    /\ \A i \in DOMAIN RunLog :
          session # NoSession => RunLog[i].session = session
    /\ \A i, j \in DOMAIN log :
          log[i].session = log[j].session => log[i].run = log[j].run

\* C9: the positions of a fetch_book call, up to the point where an error
\* left the function, are a prefix of Init, ProbeFirstPage, Aborted or of
\* Init, ProbeFirstPage, Streaming, Assembling, Done; Streaming follows an
\* OK probe of page 1, Assembling follows a non-OK probe by the exhausted
\* generator, and Done follows the writing of the document.
MachineAbort == <<"Init", "ProbeFirstPage", "Aborted">>
MachineFetch == <<"Init", "ProbeFirstPage", "Streaming", "Assembling", "Done">>
TraceCore ==
    IF trace # <<>> /\ trace[Len(trace)] = "Failed"
    THEN SubSeq(trace, 1, Len(trace) - 1) ELSE trace

C9_StateMachine ==
    /\ IsPrefix(TraceCore, MachineAbort) \/ IsPrefix(TraceCore, MachineFetch)
    /\ pc \notin {"Idle", "Downloading"} => trace[Len(trace)] = pc
    /\ pc = "Downloading" => trace[Len(trace)] = "Streaming"
    /\ "Streaming" \in Visited =>
          /\ RunLog[1].op = "HEAD"
          /\ RunLog[1].url = PageUrl(target, 1)
          /\ IsOK(RunLog[1].resp)
    /\ "Assembling" \in Visited =>
          /\ gen.state = "finished"
          /\ RunLog[Len(RunLog)].op = "HEAD"
          /\ RunLog[Len(RunLog)].url = PageUrl(target, gen.index)
          /\ IsNotOK(RunLog[Len(RunLog)].resp)
    /\ "Done" \in Visited => SavedBy(run) # {}

C9_Witness ==
    /\ trace = MachineFetch
    /\ Len(images) = 2

\* C11: every fetch_book call ends by returning True or False, and True is
\* returned only after the document has been written.
C11_ReturnsTrueOrFalse ==
    /\ pc \in Terminal => result \in {"True", "False"}
    /\ result = "True" => (pc = "Done" /\ SavedBy(run) # {})

\* C12: a direct call of url_ok whose HEAD request got a status returns
\* True exactly when the status is 200 and False for every other status,
\* and leaves everything but the request it sent as it was.
C12_TrueIffStatus200 ==
    u_result # "none" =>
       LET r == log[Len(log)].resp
       IN /\ ~r.raised =>
                /\ u_result \in {"True", "False"}
                /\ u_result = "True" <=> r.status_code = 200
          /\ pc = "Idle" /\ run = 0 /\ images = <<>> /\ saved = <<>>
          /\ tmpdirs = {} /\ tmpfiles = {} /\ gen = NoGenerator
          /\ yielded = <<>> /\ nextSession = 1 /\ outs = <<>>

C12_Witness ==
    /\ u_result = "False"
    /\ Len(log) = 2
    /\ log[1].resp.status_code = 200
    /\ log[2].resp.status_code = 301

\* C13: a non-OK status answering a probe of the generator is the last
\* request of the call; the pages kept are exactly 1..j-1, where j is the
\* page of that probe, and no page from j on is requested again or
\* downloaded.
LastReq == RunLog[Len(RunLog)]
TruncatedAtGap ==
    LET L == RunLog IN
    /\ \A i \in 2..Len(L) :
          (L[i].op = "HEAD" /\ IsNotOK(L[i].resp)) =>
              /\ i = Len(L)
              /\ gen.state = "finished"
              /\ L[i].url = PageUrl(target, gen.index)
    /\ gen.state = "finished" =>
          /\ L[Len(L)].op = "HEAD" /\ IsNotOK(L[Len(L)].resp)
          /\ Len(images) = gen.index - 1
          /\ \A i \in DOMAIN images : images[i] = PageUrl(target, i)
          /\ \A i \in DOMAIN L, p \in gen.index..(MaxPage + 1) :
                L[i].url = PageUrl(target, p) =>
                    /\ p = gen.index
                    /\ L[i].op = "HEAD"
                    /\ i = Len(L) \/ (i = 1 /\ p = 1)
          /\ pc \in {"Assembling", "Done", "Failed"}

\* ... and the call then ends as a success with pages 1..j-1 (as claimed)
C13_TruncationAlwaysSucceeds ==
    /\ TruncatedAtGap
    /\ (gen.state = "finished" /\ pc \in Terminal) =>
          /\ pc = "Done" /\ result = "True"
          /\ saved[Len(saved)].images = images

\* ... and the call then ends as a success with pages 1..j-1 when j > 1,
\* and with IndexError and nothing written when j = 1 (amended)
C13_TruncationAtFirstGap ==
    /\ TruncatedAtGap
    /\ (gen.state = "finished" /\ pc \in Terminal /\ gen.index > 1) =>
          /\ pc = "Done" /\ result = "True"
          /\ saved[Len(saved)].run = run
          /\ saved[Len(saved)].images = images
    /\ (gen.state = "finished" /\ pc \in Terminal /\ gen.index = 1) =>
          /\ pc = "Failed" /\ result = "IndexError"
          /\ SavedBy(run) = {}

C13_Witness ==
    /\ gen.state = "finished"
    /\ gen.index = 3
    /\ pc = "Done"
    /\ LastReq.resp.status_code = 404

\* C14: in a fetch_book call every download directly follows the OK probe
\* of the same URL, every probe of the generator after its first directly
\* follows the completed download of the page before, and every yielded
\* URL is downloaded exactly once (the one just yielded: not yet).
Downloads(L, url) == {n \in DOMAIN L : L[n].op = "GET" /\ L[n].url = url}
C14_ProbeThenDownloadInTurn ==
    LET L == RunLog IN
    /\ \A n \in DOMAIN L :
          /\ L[n].op = "GET" =>
                /\ n >= 3
                /\ L[n - 1].op = "HEAD"
                /\ L[n - 1].url = L[n].url
                /\ IsOK(L[n - 1].resp)
          /\ (L[n].op = "HEAD" /\ n >= 3) =>
                /\ L[n - 1].op = "GET"
                /\ IsOK(L[n - 1].resp)
                /\ \E q \in 1..MaxPage :
                      /\ L[n - 1].url = PageUrl(target, q)
                      /\ L[n].url = PageUrl(target, q + 1)
    /\ \A i \in DOMAIN yielded :
          Cardinality(Downloads(L, yielded[i])) =
             IF i = Len(yielded) /\ pc = "Downloading" THEN 0 ELSE 1

C14_Witness ==
    /\ Len(RunLog) = 7
    /\ RunLog[6].op = "HEAD"
    /\ IsOK(RunLog[6].resp)
    /\ RunLog[5].op = "GET"
    /\ RunLog[7].op = "GET"
    /\ Len(images) = 3

\* the k-th request of the current direct call of page_fetcher
ProbeOfCall(k) == log[Len(log) - (stubPos - 1) + k]

\* C15 (as claimed): the k-th probe of a call is for page start+k-1, where
\* start is the start index given, and 1 when none is given.
C15_DefaultStartIsOne ==
    \A k \in 1..(stubPos - 1) :
       ProbeOfCall(k).url =
          PageUrl(h_args.base_url,
                  (IF h_args.given THEN h_args.startfrom ELSE 1) + k - 1)

\* C15 (amended): the k-th probe of a call is for page start+k-1, where
\* start is the start index given, and 0 when none is given.
C15_DefaultStartIsZero ==
    \A k \in 1..(stubPos - 1) :
       /\ ProbeOfCall(k).op = "HEAD"
       /\ ProbeOfCall(k).url =
             PageUrl(h_args.base_url,
                     (IF h_args.given THEN h_args.startfrom ELSE 0) + k - 1)

C15_Witness ==
    /\ ~h_args.given
    /\ Len(outs) = 1
    /\ stubPos = 4
    /\ yielded = <<PageUrl(h_args.base_url, 0), PageUrl(h_args.base_url, 1)>>

\* C16: when within a fetch_book call every URL probed more than once got
\* the same answer each time, a call that has reached Assembling holds at
\* least one image, and does not fail for an empty list.
StableAnswers ==
    LET L == RunLog IN
    \A i, j \in DOMAIN L :
       (L[i].op = "HEAD" /\ L[j].op = "HEAD"
          /\ L[i].url = L[j].url) => L[i].resp = L[j].resp

C16_StableMeansNonEmpty ==
    (StableAnswers /\ "Assembling" \in Visited) =>
        /\ Len(images) >= 1
        /\ result # "IndexError"

C16_Witness ==
    /\ StableAnswers
    /\ pc = "Assembling"
    /\ Len(images) = 1
    /\ Len(RunLog) = 4

\* C17: a fetch_book call that ended in Done with k pages sent exactly k+2
\* HEAD requests (page 1 twice, pages 2..k+1 once each, all OK but the
\* last) and exactly k GET requests (pages 1..k once each); in every call
\* a request with a negative or failed result is the last one.
Probes(L, url) == {n \in DOMAIN L : L[n].op = "HEAD" /\ L[n].url = url}
Unsuccessful(e) ==
    \/ e.resp.raised
    \/ e.op = "HEAD" /\ e.resp.status_code # 200
    \/ e.op = "GET" /\ (e.resp.status_code >= 400 \/ e.resp.body # "image")

C17_RequestCount ==
    LET L == RunLog IN
    /\ pc = "Done" =>
          LET k == Len(images)
          IN /\ Cardinality({n \in DOMAIN L : L[n].op = "HEAD"}) = k + 2
             /\ Cardinality({n \in DOMAIN L : L[n].op = "GET"}) = k
             /\ Cardinality(Probes(L, PageUrl(target, 1))) = 2
             /\ \A q \in 2..(k + 1) : Cardinality(Probes(L, PageUrl(target, q))) = 1
             /\ \A q \in 1..k :
                   /\ Cardinality(Downloads(L, PageUrl(target, q))) = 1
                   /\ \A n \in Probes(L, PageUrl(target, q)) : IsOK(L[n].resp)
             /\ \A n \in Probes(L, PageUrl(target, k + 1)) : IsNotOK(L[n].resp)
    /\ \A n \in DOMAIN L : Unsuccessful(L[n]) => n = Len(L)

C17_Witness ==
    /\ pc = "Done"
    /\ Len(images) = 2
    /\ Len(RunLog) = 6

====
